---- MODULE Spec2Model ----
(***************************************************************************)
(* Model of disasm.py: the single forward pass of disassemble over a byte  *)
(* buffer, its code/data mode flag, the open DataSection and the rendered  *)
(* output lines.                                                           *)
(*                                                                         *)
(* Text is modelled structurally.  A rendered line is a record             *)
(*   [off, text, has0x, payload, truncated]                                *)
(* standing for  "<off>: <text>[ 0x<payload>][ # truncated]", where off    *)
(* and payload are sequences of one-character strings (the hex digits as   *)
(* they are printed).  Integers that Python keeps as big integers          *)
(* (int.from_bytes) are kept as their canonical base-16 digit sequence.    *)
(***************************************************************************)
EXTENDS Integers, Sequences, FiniteSets, TLC

VARIABLES code, pc, reading_code, data_section, output, ctl, trace, terminating

vars == <<code, pc, reading_code, data_section, output, ctl, trace, terminating>>

-----------------------------------------------------------------------------
(* Bounds of the model *)

\* longest buffer enumerated by Init
MaxLen == 4

\* FmtInit draws offsets within FmtSpan of 0 and of 16^4
FmtSpan == 20

\* number of calls of disassemble running at once in ConcSpec
NumCalls == 2

-----------------------------------------------------------------------------
(* Opcodes imported from smol_evm.opcodes *)

STOP == 0
ADD == 1
JUMP == 86
JUMPDEST == 91
PUSH1 == 96
PUSH2 == 97
PUSH32 == 127
RETURN == 243
REVERT == 253
INVALID == 254

TERMINATING == {JUMP, STOP, REVERT, RETURN, INVALID}

\* the byte values the enumerated buffers are drawn from
ByteAlphabet == {STOP, ADD, JUMP, JUMPDEST, PUSH1, PUSH2, RETURN, REVERT, INVALID}

None == [none |-> TRUE]

Min(a, b) == IF a < b THEN a ELSE b

Last(s) == s[Len(s)]

-----------------------------------------------------------------------------
(* Hex text *)

HexChars == <<"0", "1", "2", "3", "4", "5", "6", "7",
              "8", "9", "a", "b", "c", "d", "e", "f">>

LowerHexDigits == {HexChars[i] : i \in 1..16}

\* the digits of a natural number in base 16, most significant first,
\* with no leading zero; the number 0 has no digits
RECURSIVE NatDigits(_)
NatDigits(n) == IF n = 0 THEN <<>>
                ELSE Append(NatDigits(n \div 16), HexChars[(n % 16) + 1])

\* drop leading "0" digits
RECURSIVE StripZeros(_)
StripZeros(ds) == IF ds = <<>> THEN <<>>
                  ELSE IF ds[1] = "0" THEN StripZeros(Tail(ds))
                  ELSE ds

RECURSIVE Zeros(_)
Zeros(k) == IF k <= 0 THEN <<>> ELSE <<"0">> \o Zeros(k - 1)

\* Python's format spec 0<width>x applied to a number given by its digits:
\* at least one digit, padded on the left with zeros up to width, never cut
FormatHex(digits, width) ==
    LET body == IF digits = <<>> THEN <<"0">> ELSE digits
    IN  Zeros(width - Len(body)) \o body

\* bytes.hex(): two digits per byte
RECURSIVE BytesHex(_)
BytesHex(bs) ==
    IF bs = <<>> THEN <<>>
    ELSE <<HexChars[(bs[1] \div 16) + 1], HexChars[(bs[1] % 16) + 1]>>
         \o BytesHex(Tail(bs))

\* int.from_bytes(data, byteorder="big"), as canonical digits
IntFromBytes(bs) == StripZeros(BytesHex(bs))

-----------------------------------------------------------------------------
(* The opcode decoder of smol_evm.opcodes (not part of disasm.py) *)

IsPush(op) == op \in PUSH1..PUSH32

PushWidth(op) == IF IsPush(op) THEN op - (PUSH1 - 1) ELSE 0

Mnemonic(op) ==
    CASE op = STOP -> "STOP"
      [] op = ADD -> "ADD"
      [] op = JUMP -> "JUMP"
      [] op = JUMPDEST -> "JUMPDEST"
      [] op = RETURN -> "RETURN"
      [] op = REVERT -> "REVERT"
      [] op = INVALID -> "INVALID"
      [] IsPush(op) -> "PUSH" \o ToString(PushWidth(op))
      [] OTHER -> "UNKNOWN"

\* the opcode byte read at cursor p (0-based) of buffer c
OpcodeAt(c, p) == c[p + 1]

\* the cursor after decode_opcode: past the opcode and its operand bytes,
\* stopping at the end of the buffer
DecodeAdvance(c, p) == Min(p + 1 + PushWidth(OpcodeAt(c, p)), Len(c))

\* str(insn): the mnemonic, followed by the full operand of a push
InsnStr(op, push_data) ==
    [text |-> Mnemonic(op), has0x |-> IsPush(op), payload |-> BytesHex(push_data)]

-----------------------------------------------------------------------------
(* disasm.py *)

\* DataSection(start_pc), data = b""
DataSection(start_pc) == [start_pc |-> start_pc, data |-> <<>>]

\* (variant: the payload printed with {:x}, without the zero padding)
RenderData_NoPad(ds) ==
    [off |-> FormatHex(NatDigits(ds.start_pc), 4),
     text |-> "DATA",
     has0x |-> TRUE,
     payload |-> FormatHex(IntFromBytes(ds.data), 0),
     truncated |-> FALSE]

\* DataSection.render: the line appended to the output
RenderData(ds) ==
    [off |-> FormatHex(NatDigits(ds.start_pc), 4),
     text |-> "DATA",
     has0x |-> TRUE,
     payload |-> FormatHex(IntFromBytes(ds.data), Len(ds.data) * 2),
     truncated |-> FALSE]

\* (variant: the loop stops one byte early)
LoopCond_Short(p, c) == p < Len(c) - 1

\* while context.pc < len(code)
LoopCond(p, c) == p < Len(c)

\* (variant: the offset printed with {:x}, without the zero padding)
PcStr_NoPad(original_pc) == FormatHex(NatDigits(original_pc), 0)

\* pc_str = f"{original_pc:04x}"
PcStr(original_pc) == FormatHex(NatDigits(original_pc), 4)

\* (variant: the slice starts at the opcode byte, code[original_pc : ...])
PushData_FromOpcode(c, original_pc, op) ==
    IF IsPush(op)
    THEN SubSeq(c, original_pc + 1, Min(original_pc + PushWidth(op), Len(c)))
    ELSE <<>>

\* push_data = code[original_pc + 1 : original_pc + 1 + width] if push else b""
PushData(c, original_pc, op) ==
    IF IsPush(op)
    THEN SubSeq(c, original_pc + 2, Min(original_pc + 1 + PushWidth(op), Len(c)))
    ELSE <<>>

\* (variant: the cursor moves one byte per step, push operands not skipped)
NextPc_Bytewise(c, original_pc) == original_pc + 1

\* insn = decode_opcode(context), which increments pc by instruction length
NextPc(c, original_pc) == DecodeAdvance(c, original_pc)

\* (variant: the test names JUMP instead of JUMPDEST)
ReEntry_Jump(rc, op) == rc \/ op = JUMP

\* (variant: a JUMPDEST does not switch back to code mode)
ReEntry_Never(rc, op) == rc

\* reading_code = reading_code or insn.opcode is JUMPDEST.opcode
ReEntry(rc, op) == rc \/ op = JUMPDEST

\* (variant: truncated push arguments are not handled)
IsTruncated_Off(op, push_data) == FALSE

\* insn.is_push() and len(push_data) < insn.push_width()
IsTruncated(op, push_data) == IsPush(op) /\ Len(push_data) < PushWidth(op)

\* (variant: the mnemonic carries the number of bytes found, not the width)
TruncatedLine_Found(pc_str, op, push_data) ==
    [off |-> pc_str,
     text |-> "PUSH" \o ToString(Len(push_data)),
     has0x |-> TRUE,
     payload |-> BytesHex(push_data),
     truncated |-> TRUE]

\* the line of a truncated push
TruncatedLine(pc_str, op, push_data) ==
    [off |-> pc_str,
     text |-> "PUSH" \o ToString(PushWidth(op)),
     has0x |-> TRUE,
     payload |-> BytesHex(push_data),
     truncated |-> TRUE]

\* the line f"{pc_str}: {insn}"
InsnLine(pc_str, op, push_data) ==
    LET s == InsnStr(op, push_data)
    IN  [off |-> pc_str, text |-> s.text, has0x |-> s.has0x,
         payload |-> s.payload, truncated |-> FALSE]

\* if data_section is not None: data_section.render(output)
Flush(ds, out) == IF ds # None THEN Append(out, RenderData(ds)) ELSE out

\* (variant: the flush after the loop is missing)
FinalFlush_Missing(ds, out) == out

\* after the loop: if data_section is not None: data_section.render(output)
FinalFlush(ds, out) == Flush(ds, out)

\* (variant: REVERT missing from the terminating opcodes)
ModeExit_NoRevert(op) == op \notin (terminating \ {REVERT})

\* reading_code = insn.opcode not in TERMINATING (the module-level set, held
\* by the variable terminating)
ModeExit(op) == op \notin terminating

\* (variant: the section starts at the byte after the one that opens it)
OpenSection_Late(ds, original_pc) ==
    IF ds = None THEN DataSection(original_pc + 1) ELSE ds

\* if data_section is None: data_section = DataSection(original_pc)
OpenSection(ds, original_pc) == IF ds = None THEN DataSection(original_pc) ELSE ds

\* (variant: only the opcode byte is added, the operand bytes are lost)
ExtendSection_OpcodeOnly(ds, op, push_data) ==
    [ds EXCEPT !.data = @ \o <<op>>]

\* (variant: only the operand bytes are added, the opcode byte is lost)
ExtendSection_OperandOnly(ds, op, push_data) ==
    [ds EXCEPT !.data = @ \o push_data]

\* data_section.data += opcode byte; data_section.data += push_data
ExtendSection(ds, op, push_data) ==
    [ds EXCEPT !.data = (@ \o <<op>>) \o push_data]

\* output, reading_code, data_section = [], True, None
InitOutput == <<>>

\* (variant: the pass starts in data mode)
InitReadingCode_Data == FALSE

\* reading_code = True
InitReadingCode == TRUE

\* (variant: a data section exists from the start)
InitDataSection_Eager == DataSection(0)

InitDataSection == None

\* record of one loop iteration, kept for stating properties
StepRecord(op, pd, rendered) ==
    [pc |-> pc, opcode |-> op, push_data |-> pd, mode_in |-> reading_code,
     rendered |-> rendered, open_in |-> data_section # None]

\* one loop iteration taking the code-mode branch
StepCode ==
    /\ ctl = "loop"
    /\ LoopCond(pc, code)
    /\ LET original_pc == pc
           pc_str == PcStr(original_pc)
           op == OpcodeAt(code, original_pc)
           push_data == PushData(code, original_pc, op)
           flushed == Flush(data_section, output)
       IN  /\ ReEntry(reading_code, op)
           /\ pc' = NextPc(code, original_pc)
           /\ data_section' = None
           /\ output' = IF IsTruncated(op, push_data)
                        THEN Append(flushed, TruncatedLine(pc_str, op, push_data))
                        ELSE Append(flushed, InsnLine(pc_str, op, push_data))
           /\ reading_code' = ModeExit(op)
           /\ trace' = Append(trace, StepRecord(op, push_data, TRUE))
    /\ UNCHANGED <<code, ctl, terminating>>

\* one loop iteration taking the data-mode branch
StepData ==
    /\ ctl = "loop"
    /\ LoopCond(pc, code)
    /\ LET original_pc == pc
           op == OpcodeAt(code, original_pc)
           push_data == PushData(code, original_pc, op)
       IN  /\ ~ReEntry(reading_code, op)
           /\ pc' = NextPc(code, original_pc)
           /\ reading_code' = ReEntry(reading_code, op)
           /\ data_section' =
                  ExtendSection(OpenSection(data_section, original_pc), op, push_data)
           /\ trace' = Append(trace, StepRecord(op, push_data, FALSE))
    /\ UNCHANGED <<code, output, ctl, terminating>>

\* loop exit, the end-of-buffer flush and return output
Return ==
    /\ ctl = "loop"
    /\ ~LoopCond(pc, code)
    /\ output' = FinalFlush(data_section, output)
    /\ ctl' = "done"
    /\ UNCHANGED <<code, pc, reading_code, data_section, trace, terminating>>

RECURSIVE SeqsUpTo(_, _)
SeqsUpTo(S, n) ==
    IF n = 0 THEN {<<>>}
    ELSE LET shorter == SeqsUpTo(S, n - 1)
         IN  shorter \cup {Append(s, b) : s \in {t \in shorter : Len(t) = n - 1}, b \in S}

\* the buffers disassemble is called with
Buffers == SeqsUpTo(ByteAlphabet, MaxLen)

InitLocals ==
    /\ pc = 0
    /\ reading_code = InitReadingCode
    /\ data_section = InitDataSection
    /\ output = InitOutput
    /\ ctl = "loop"
    /\ trace = <<>>

\* the example buffers of the specification: 60 01 60 02 01 00,
\* 00 de ad be ef, 60 01 5b 00 and 60
ExampleBuffers ==
    { <<PUSH1, 1, PUSH1, 2, ADD, STOP>>,
      <<STOP, 222, 173, 190, 239>>,
      <<PUSH1, 1, JUMPDEST, STOP>>,
      <<PUSH1>> }

\* TERMINATING = set((JUMP.opcode, ...)) at import
InitModule == terminating = TERMINATING

\* two longer buffers in which two data regions are opened
TwoRegionBuffers ==
    { <<STOP, ADD, JUMPDEST, STOP, ADD>>,
      <<REVERT, PUSH1, JUMPDEST, JUMPDEST, JUMP, PUSH2, ADD>> }

Init ==
    /\ code \in (Buffers \cup ExampleBuffers \cup TwoRegionBuffers)
    /\ InitLocals
    /\ InitModule

Next == StepCode \/ StepData \/ Return

Spec == Init /\ [][Next]_vars

FairSpec == Spec /\ WF_vars(Next)

-----------------------------------------------------------------------------
(* The offset formatting on its own.  original_pc ranges over 0 .. len(code) - 1 *)
(* and len(code) is not limited, so the formatting of lines 38 and 25 is      *)
(* applied here to offsets around 0 and around 16^4 without carrying a buffer *)
(* of that length: pc holds the offset of the step, output the line built.    *)

FmtOffsets == (0..FmtSpan) \cup ((16 ^ 4 - FmtSpan)..(16 ^ 4 + FmtSpan))

FmtInit ==
    /\ pc \in FmtOffsets
    /\ code = <<>>
    /\ reading_code = TRUE
    /\ data_section = InitDataSection
    /\ output = InitOutput
    /\ ctl = "fmt"
    /\ trace = <<>>
    /\ InitModule

\* output.append(f"{pc_str}: {insn}") at offset pc
FormatInsn ==
    /\ ctl = "fmt"
    /\ \E op \in {STOP, JUMPDEST} :
          output' = Append(output, InsnLine(PcStr(pc), op, <<>>))
    /\ ctl' = "fmt_done"
    /\ UNCHANGED <<code, pc, reading_code, data_section, trace, terminating>>

\* output.append(f"{pc_str}: PUSH{width} 0x{hex} # truncated") at offset pc
FormatTruncated ==
    /\ ctl = "fmt"
    /\ output' = Append(output, TruncatedLine(PcStr(pc), PUSH1, <<>>))
    /\ ctl' = "fmt_done"
    /\ UNCHANGED <<code, pc, reading_code, data_section, trace, terminating>>

\* data_section.render(output) for a section opened at offset pc
FormatData ==
    /\ ctl = "fmt"
    /\ \E op \in {STOP, ADD} :
          output' = Flush(ExtendSection(OpenSection(data_section, pc), op, <<>>), output)
    /\ ctl' = "fmt_done"
    /\ UNCHANGED <<code, pc, reading_code, data_section, trace, terminating>>

FmtNext == FormatInsn \/ FormatTruncated \/ FormatData

FmtSpec == FmtInit /\ [][FmtNext]_vars

-----------------------------------------------------------------------------
(* Several calls of disassemble running at once, their loop iterations       *)
(* interleaved.  Each call has its own frame: in ConcSpec the variables code, *)
(* pc, reading_code, data_section, output and ctl hold one value per call,    *)
(* indexed by the call; terminating is the one module-level set they share;  *)
(* trace holds the call that took the latest step.                          *)

Calls == 1..NumCalls

\* the buffers the concurrent calls are given
ConcBuffers ==
    ExampleBuffers \cup
        { <<>>,
          <<STOP, PUSH1, JUMPDEST, JUMPDEST>>,
          <<REVERT, ADD, JUMPDEST, PUSH2, ADD>> }

\* (variant: the name is a module-level global, one value for all calls)
SetLocal_Global(f, c, v) == [d \in DOMAIN f |-> v]

\* assignment to a local name of call c: output, reading_code, data_section
SetLocal(f, c, v) == [f EXCEPT ![c] = v]

ConcInit ==
    /\ code \in [Calls -> ConcBuffers]
    /\ pc = [c \in Calls |-> 0]
    /\ reading_code = [c \in Calls |-> InitReadingCode]
    /\ data_section = [c \in Calls |-> InitDataSection]
    /\ output = [c \in Calls |-> InitOutput]
    /\ ctl = [c \in Calls |-> "loop"]
    /\ trace = <<>>
    /\ InitModule

\* one loop iteration of call c taking the code-mode branch
CallStepCode(c) ==
    /\ ctl[c] = "loop"
    /\ LoopCond(pc[c], code[c])
    /\ LET original_pc == pc[c]
           pc_str == PcStr(original_pc)
           op == OpcodeAt(code[c], original_pc)
           push_data == PushData(code[c], original_pc, op)
           flushed == Flush(data_section[c], output[c])
       IN  /\ ReEntry(reading_code[c], op)
           /\ pc' = [pc EXCEPT ![c] = NextPc(code[c], original_pc)]
           /\ data_section' = SetLocal(data_section, c, None)
           /\ output' = SetLocal(output, c,
                            IF IsTruncated(op, push_data)
                            THEN Append(flushed, TruncatedLine(pc_str, op, push_data))
                            ELSE Append(flushed, InsnLine(pc_str, op, push_data)))
           /\ reading_code' = SetLocal(reading_code, c, ModeExit(op))
    /\ trace' = <<c>>
    /\ UNCHANGED <<code, ctl, terminating>>

\* one loop iteration of call c taking the data-mode branch
CallStepData(c) ==
    /\ ctl[c] = "loop"
    /\ LoopCond(pc[c], code[c])
    /\ LET original_pc == pc[c]
           op == OpcodeAt(code[c], original_pc)
           push_data == PushData(code[c], original_pc, op)
       IN  /\ ~ReEntry(reading_code[c], op)
           /\ pc' = [pc EXCEPT ![c] = NextPc(code[c], original_pc)]
           /\ reading_code' =
                  SetLocal(reading_code, c, ReEntry(reading_code[c], op))
           /\ data_section' =
                  SetLocal(data_section, c,
                           ExtendSection(OpenSection(data_section[c], original_pc),
                                         op, push_data))
    /\ trace' = <<c>>
    /\ UNCHANGED <<code, output, ctl, terminating>>

\* loop exit of call c, its end-of-buffer flush and return
CallReturn(c) ==
    /\ ctl[c] = "loop"
    /\ ~LoopCond(pc[c], code[c])
    /\ output' = SetLocal(output, c, FinalFlush(data_section[c], output[c]))
    /\ ctl' = [ctl EXCEPT ![c] = "done"]
    /\ trace' = <<c>>
    /\ UNCHANGED <<code, pc, reading_code, data_section, terminating>>

ConcNext ==
    \E c \in Calls : CallStepCode(c) \/ CallStepData(c) \/ CallReturn(c)

ConcSpec == ConcInit /\ [][ConcNext]_vars

-----------------------------------------------------------------------------
(* Reading the output back *)

HexCharVal(ch) == CHOOSE v \in 0..15 : HexChars[v + 1] = ch

\* the number a digit sequence denotes
RECURSIVE HexVal(_)
HexVal(ds) == IF ds = <<>> THEN 0
              ELSE 16 * HexVal(SubSeq(ds, 1, Len(ds) - 1)) + HexCharVal(Last(ds))

IsDataLine(l) == l.text = "DATA"

LineOffset(l) == HexVal(l.off)

\* the bytes of buffer c at 0-based positions from .. to - 1
Slice(c, from, to) == SubSeq(c, from + 1, to)

SetMin(S) == CHOOSE m \in S : \A n \in S : m <= n

\* the five terminating opcodes, as the properties name them
Terminators == {STOP, JUMP, REVERT, RETURN, INVALID}

\* a push at step record r whose declared width passes the end of the buffer
StepTruncated(r) == IsPush(r.opcode) /\ r.pc + 1 + PushWidth(r.opcode) > Len(code)

-----------------------------------------------------------------------------
(* Properties *)

\* the bytes that follow the terminator rendered at step i: 0-based positions
\* C1From(i) .. C1To(i) - 1, up to the next decoded JUMPDEST or the end
C1From(i) == trace[i].pc + 1

C1To(i) ==
    LET js == {j \in DOMAIN trace : j > i /\ trace[j].opcode = JUMPDEST}
    IN  IF js = {} THEN Len(code) ELSE trace[SetMin(js)].pc

C1Case(i) ==
    /\ trace[i].rendered
    /\ trace[i].opcode \in Terminators
    /\ C1From(i) < C1To(i)

\* C1: when the pass has ended, the bytes after every rendered STOP, JUMP,
\* REVERT, RETURN or INVALID, up to the next JUMPDEST decoded at a scan step
\* (or the end of the buffer), are the payload of exactly one DATA line that
\* starts right after the terminator, and no instruction line has its offset
\* among those bytes.
C1_TerminatorThenData ==
    ctl = "done" =>
        \A i \in DOMAIN trace :
            C1Case(i) =>
                LET inside == {k \in DOMAIN output :
                                  LineOffset(output[k]) \in C1From(i)..(C1To(i) - 1)}
                IN  /\ Cardinality(inside) = 1
                    /\ \A k \in inside :
                          /\ IsDataLine(output[k])
                          /\ LineOffset(output[k]) = C1From(i)
                          /\ output[k].payload = BytesHex(Slice(code, C1From(i), C1To(i)))

\* a terminator was rendered, data bytes follow it, and a JUMPDEST ends them
C1_Witness ==
    /\ ctl = "done"
    /\ \E i \in DOMAIN trace :
          /\ C1Case(i)
          /\ C1To(i) < Len(code)
          /\ trace[i].opcode = REVERT

\* C2: a scan step that decodes JUMPDEST while the mode is data renders the
\* open data region first (if there is one) and closes it, then appends the
\* JUMPDEST line at the step's offset, and leaves the mode at code.
C2_JumpdestReopensCode ==
    [][ (ctl = "loop" /\ pc < Len(code) /\ ~reading_code /\ code[pc + 1] = JUMPDEST) =>
          LET n == Len(output)
              m == IF data_section # None THEN n + 1 ELSE n
          IN  /\ Len(output') = m + 1
              /\ SubSeq(output', 1, n) = output
              /\ data_section # None =>
                    /\ IsDataLine(output'[m])
                    /\ LineOffset(output'[m]) = data_section.start_pc
                    /\ output'[m].payload = BytesHex(data_section.data)
              /\ output'[m + 1].text = "JUMPDEST"
              /\ ~output'[m + 1].has0x
              /\ ~output'[m + 1].truncated
              /\ LineOffset(output'[m + 1]) = pc
              /\ data_section' = None
              /\ reading_code' = TRUE
      ]_vars

\* the last step decoded a JUMPDEST in data mode with a region open
C2_Witness ==
    /\ trace # <<>>
    /\ Last(trace).opcode = JUMPDEST
    /\ ~Last(trace).mode_in
    /\ Last(trace).open_in
    /\ reading_code
    /\ Len(output) >= 3

\* C3 as stated: every push decoded with its width passing the end of the
\* buffer, in either mode, ends the output with its '# truncated' line.
C3_AsStated ==
    ctl = "done" =>
        \A i \in DOMAIN trace :
            StepTruncated(trace[i]) =>
                /\ output # <<>>
                /\ Last(output).truncated
                /\ LineOffset(Last(output)) = trace[i].pc
                /\ Last(output).payload =
                       BytesHex(Slice(code, trace[i].pc + 1, Len(code)))

\* C3 (amended): every push decoded in code mode with its width passing the
\* end of the buffer ends the output with a '# truncated' line at the push's
\* offset that carries exactly the available operand bytes; a push decoded
\* in data mode gets no line of its own.
C3_TruncatedPushLabelled ==
    ctl = "done" =>
        \A i \in DOMAIN trace :
            StepTruncated(trace[i]) =>
                IF trace[i].mode_in
                THEN /\ output # <<>>
                     /\ Last(output).truncated
                     /\ LineOffset(Last(output)) = trace[i].pc
                     /\ Last(output).payload =
                            BytesHex(Slice(code, trace[i].pc + 1, Len(code)))
                ELSE \A k \in DOMAIN output :
                        LineOffset(output[k]) = trace[i].pc => IsDataLine(output[k])

\* a PUSH2 decoded in code mode with one operand byte left
C3_Witness ==
    /\ ctl = "done"
    /\ \E i \in DOMAIN trace :
          /\ StepTruncated(trace[i])
          /\ trace[i].mode_in
          /\ trace[i].pc + 2 = Len(code)
          /\ trace[i].pc > 0

\* C4: the offsets of successive output lines strictly increase; the offset
\* of an instruction line is the position of a rendered scan step whose
\* opcode has the line's mnemonic, and the offset of a DATA line is the
\* position of the step that opened the region, the payload being the bytes
\* of the buffer from there on.
C4_OffsetsTrue ==
    /\ \A k \in 1..(Len(output) - 1) :
          LineOffset(output[k]) < LineOffset(output[k + 1])
    /\ \A k \in DOMAIN output :
          LET l == output[k]
              o == LineOffset(l)
          IN  IF IsDataLine(l)
              THEN /\ \E i \in DOMAIN trace :
                         trace[i].pc = o /\ ~trace[i].rendered /\ ~trace[i].open_in
                   /\ o + (Len(l.payload) \div 2) <= Len(code)
                   /\ l.payload = BytesHex(Slice(code, o, o + (Len(l.payload) \div 2)))
              ELSE /\ \E i \in DOMAIN trace : trace[i].pc = o /\ trace[i].rendered
                   /\ o < Len(code)
                   /\ l.text = Mnemonic(code[o + 1])

\* a code line, a DATA line of two bytes and a code line after it
C4_Witness ==
    /\ ctl = "done"
    /\ Len(output) = 3
    /\ IsDataLine(output[2])
    /\ Len(output[2].payload) = 4
    /\ LineOffset(output[3]) = 3

\* C5: the pass terminates: every loop iteration strictly increases the
\* cursor, the pass reaches its end, and at the end the cursor has reached
\* or passed len(code).
C5_Terminates ==
    /\ <>(ctl = "done")
    /\ [](ctl = "done" => pc >= Len(code))
    /\ [][(ctl = "loop" /\ ctl' = "loop") => pc' > pc]_vars

\* a pass of three iterations, one of them a push with its operand, has ended
C5_Witness ==
    /\ ctl = "done"
    /\ Len(trace) = 3
    /\ pc = 4

\* the 0-based positions of the operand bytes of the push at step record r
OperandRange(r) == (r.pc + 1)..(r.pc + Len(r.push_data))

\* step i is a push scanned in data mode with a JUMPDEST byte in its operand
C6Case(i) ==
    /\ ~trace[i].rendered
    /\ IsPush(trace[i].opcode)
    /\ \E p \in OperandRange(trace[i]) : code[p + 1] = JUMPDEST

\* C6: a JUMPDEST byte inside the operand range of a push scanned in data
\* mode is never decoded at a scan step and no line has its offset; right
\* after the push's step the mode is still data, no line was added, and the
\* open region ends with the push's opcode and operand bytes; when the pass
\* has ended a DATA line covers the byte.
C6_OperandJumpdestSkipped ==
    \A i \in DOMAIN trace :
        C6Case(i) =>
            \A p \in {q \in OperandRange(trace[i]) : code[q + 1] = JUMPDEST} :
                /\ \A j \in DOMAIN trace : trace[j].pc # p
                /\ \A k \in DOMAIN output : LineOffset(output[k]) # p
                /\ i = Len(trace) /\ ctl = "loop" =>
                      /\ ~reading_code
                      /\ data_section # None
                      /\ pc = trace[i].pc + 1 + Len(trace[i].push_data)
                      /\ data_section.data =
                             Slice(code, data_section.start_pc, pc)
                /\ ctl = "done" =>
                      \E k \in DOMAIN output :
                          /\ IsDataLine(output[k])
                          /\ LineOffset(output[k]) <= p
                          /\ p < LineOffset(output[k]) + (Len(output[k].payload) \div 2)
                          /\ output[k].payload[2 * (p - LineOffset(output[k])) + 1] = "5"
                          /\ output[k].payload[2 * (p - LineOffset(output[k])) + 2] = "b"

\* a data-mode PUSH1 whose operand is a JUMPDEST byte, followed by one more byte
C6_Witness ==
    /\ ctl = "done"
    /\ \E i \in DOMAIN trace :
          /\ C6Case(i)
          /\ trace[i].opcode = PUSH1
          /\ i < Len(trace)

\* C7: whenever a DATA line is appended, the region it renders holds n >= 1
\* bytes and the payload is the 2 * n hex digits of those bytes, two per
\* byte, leading zero bytes included.
C7_DataPayloadWidth ==
    [][ \A k \in (Len(output) + 1)..Len(output') :
            IsDataLine(output'[k]) =>
                /\ data_section # None
                /\ Len(data_section.data) >= 1
                /\ Len(output'[k].payload) = 2 * Len(data_section.data)
                /\ output'[k].payload = BytesHex(data_section.data)
      ]_vars

\* a DATA line whose region starts with a zero byte
C7_Witness ==
    \E k \in DOMAIN output :
        /\ IsDataLine(output[k])
        /\ Len(output[k].payload) = 6
        /\ output[k].payload[1] = "0"
        /\ output[k].payload[2] = "0"

\* the line "<offset>: PUSH<width> 0x<hex of bs> # truncated"
C8Line(l, offset, width, bs) ==
    /\ LineOffset(l) = offset
    /\ l.text = "PUSH" \o ToString(width)
    /\ l.has0x
    /\ l.payload = BytesHex(bs)
    /\ l.truncated

\* C8: from the step at which a push is decoded in code mode with fewer
\* operand bytes left than its width, the output ends with the line
\* '<offset>: PUSH<width> 0x<remaining bytes> # truncated', the step is the
\* last one and no DATA line follows; the single byte 60 gives the one line
\* '0000: PUSH1 0x # truncated'.
C8_TruncatedLineIsLast ==
    /\ \A i \in DOMAIN trace :
          (trace[i].mode_in /\ StepTruncated(trace[i])) =>
              /\ i = Len(trace)
              /\ pc >= Len(code)
              /\ data_section = None
              /\ output # <<>>
              /\ C8Line(Last(output), trace[i].pc, PushWidth(trace[i].opcode),
                        Slice(code, trace[i].pc + 1, Len(code)))
              /\ \A k \in DOMAIN output : output[k].truncated => k = Len(output)
    /\ (code = <<PUSH1>> /\ ctl = "done") =>
          output = << [off |-> <<"0", "0", "0", "0">>, text |-> "PUSH1",
                       has0x |-> TRUE, payload |-> <<>>, truncated |-> TRUE] >>

\* the pass over the single byte 60 has ended
C8_Witness ==
    /\ ctl = "done"
    /\ code = <<PUSH1>>
    /\ Len(output) = 1

\* C9: on the empty buffer the loop body never runs, nothing is flushed and
\* the returned output is empty.
C9_EmptyInput ==
    (code = <<>> /\ ctl = "done") => (output = <<>> /\ trace = <<>>)

\* the pass over the empty buffer has ended
C9_Witness == code = <<>> /\ ctl = "done" /\ pc = 0

\* C10 as stated: the offset field of every line is exactly 4 lowercase hex
\* digits.
C10_AsStated ==
    \A k \in DOMAIN output :
        /\ Len(output[k].off) = 4
        /\ \A d \in DOMAIN output[k].off : output[k].off[d] \in LowerHexDigits

\* C10 (amended): the offset field of every line is the offset in lowercase
\* hex, zero-padded to 4 digits: exactly 4 digits when the offset is below
\* 16^4, and as many digits as the offset needs (more than 4, no leading
\* zero) from 16^4 on.
C10_OffsetField ==
    \A k \in DOMAIN output :
        LET o == output[k].off
        IN  /\ \A d \in DOMAIN o : o[d] \in LowerHexDigits
            /\ HexVal(o) = pc
            /\ Len(o) >= 4
            /\ pc < 16 ^ 4 => Len(o) = 4
            /\ pc >= 16 ^ 4 => (Len(o) > 4 /\ o[1] # "0")

\* a DATA line for a region that starts at offset 16^4
C10_Witness ==
    /\ pc = 16 ^ 4
    /\ Len(output) = 1
    /\ IsDataLine(output[1])
    /\ output[1].off = <<"1", "0", "0", "0", "0">>

\* the output of a pass that runs on its own over buffer c, continued from
\* cursor p, mode rc, open section ds and output out
RECURSIVE RunFrom(_, _, _, _, _)
RunFrom(c, p, rc, ds, out) ==
    IF ~LoopCond(p, c) THEN FinalFlush(ds, out)
    ELSE LET op == OpcodeAt(c, p)
             push_data == PushData(c, p, op)
         IN  IF ReEntry(rc, op)
             THEN RunFrom(c, NextPc(c, p), ModeExit(op), None,
                          Append(Flush(ds, out),
                                 IF IsTruncated(op, push_data)
                                 THEN TruncatedLine(PcStr(p), op, push_data)
                                 ELSE InsnLine(PcStr(p), op, push_data)))
             ELSE RunFrom(c, NextPc(c, p), FALSE,
                          ExtendSection(OpenSection(ds, p), op, push_data), out)

RunAlone(c) == RunFrom(c, 0, InitReadingCode, InitDataSection, InitOutput)

\* C11: with the steps of several calls interleaved in any order, a step of
\* one call leaves the buffer, cursor, mode flag, open region, output and
\* position of every other call unchanged, no step changes the shared
\* TERMINATING set, and every call that has returned has the output of a
\* pass run alone on its buffer.
C11_CallsIndependent ==
    /\ [](\A c \in Calls : ctl[c] = "done" => output[c] = RunAlone(code[c]))
    /\ [](terminating = TERMINATING)
    /\ [][ /\ terminating' = terminating
           /\ \A c \in Calls :
                 (trace' # <<>> /\ trace'[1] # c) =>
                     /\ code'[c] = code[c]
                     /\ pc'[c] = pc[c]
                     /\ reading_code'[c] = reading_code[c]
                     /\ data_section'[c] = data_section[c]
                     /\ output'[c] = output[c]
                     /\ ctl'[c] = ctl[c]
       ]_vars

\* two calls are both in the middle of their passes, the first in data mode
\* with a region open, the second in code mode, and the second stepped last
C11_Witness ==
    /\ ctl[1] = "loop" /\ pc[1] > 0 /\ pc[1] < Len(code[1])
    /\ ctl[2] = "loop" /\ pc[2] > 0 /\ pc[2] < Len(code[2])
    /\ ~reading_code[1]
    /\ data_section[1] # None
    /\ reading_code[2]
    /\ trace = <<2>>

\* the operand bytes of the opcode at 0-based position p that the buffer holds
AvailableOperand(p) ==
    IF IsPush(code[p + 1])
    THEN Slice(code, p + 1, Min(p + 1 + PushWidth(code[p + 1]), Len(code)))
    ELSE <<>>

\* C12: a scan step in data mode whose opcode is not JUMPDEST adds no line,
\* leaves the mode at data, moves the cursor forward, and leaves a region
\* open that starts at the step's offset if none was open (at the old start
\* otherwise) and holds the old bytes followed by the opcode byte and
\* exactly the operand bytes the buffer holds.
C12_DataStepFrame ==
    [][ (ctl = "loop" /\ pc < Len(code) /\ ~reading_code /\ code[pc + 1] # JUMPDEST) =>
          /\ output' = output
          /\ reading_code' = FALSE
          /\ code' = code
          /\ ctl' = "loop"
          /\ terminating' = terminating
          /\ pc' > pc
          /\ data_section' # None
          /\ data_section'.start_pc =
                 (IF data_section = None THEN pc ELSE data_section.start_pc)
          /\ data_section'.data =
                 ((IF data_section = None THEN <<>> ELSE data_section.data)
                     \o <<code[pc + 1]>>) \o AvailableOperand(pc)
      ]_vars

\* the last step scanned, in data mode with a region open, a PUSH2 that had
\* one operand byte left
C12_Witness ==
    /\ trace # <<>>
    /\ ~Last(trace).rendered
    /\ Last(trace).open_in
    /\ Last(trace).opcode = PUSH2
    /\ Len(Last(trace).push_data) = 1
    /\ data_section # None
    /\ Len(data_section.data) = 3

\* C13: at the start of every loop iteration and at loop exit, an open data
\* region means that the mode is data and that the region holds at least
\* one byte.
C13_OpenRegionInDataMode ==
    ctl = "loop" =>
        (data_section # None =>
            /\ ~reading_code
            /\ Len(data_section.data) >= 1)

\* the loop is at its exit with a region of one byte open
C13_Witness ==
    /\ ctl = "loop"
    /\ pc = Len(code)
    /\ data_section # None
    /\ Len(data_section.data) = 1
    /\ ~reading_code

\* the steps that opened a data region
OpeningSteps == {i \in DOMAIN trace : ~trace[i].rendered /\ ~trace[i].open_in}

DataLines == {k \in DOMAIN output : IsDataLine(output[k])}

\* the 0-based position just past the bytes of DATA line k
DataEnd(k) == LineOffset(output[k]) + (Len(output[k].payload) \div 2)

\* C14: when the pass has returned, every region that was opened has exactly
\* one DATA line, there are no other DATA lines, and each DATA line either
\* stands right before the line of the step that switched back to code mode
\* with the region open, or is the last line and its region reaches the end
\* of the buffer.
C14_RegionRenderedOnce ==
    ctl = "done" =>
        /\ Cardinality(DataLines) = Cardinality(OpeningSteps)
        /\ \A i \in OpeningSteps :
              Cardinality({k \in DataLines : LineOffset(output[k]) = trace[i].pc}) = 1
        /\ \A k \in DataLines :
              IF k = Len(output)
              THEN /\ DataEnd(k) = Len(code)
                   /\ data_section # None
                   /\ data_section.start_pc = LineOffset(output[k])
              ELSE /\ ~IsDataLine(output[k + 1])
                   /\ LineOffset(output[k + 1]) = DataEnd(k)
                   /\ \E j \in DOMAIN trace :
                         /\ trace[j].pc = DataEnd(k)
                         /\ trace[j].rendered
                         /\ ~trace[j].mode_in
                         /\ trace[j].open_in

\* a pass has returned with two regions rendered, one flushed before the
\* switch back to code and one flushed after the loop
C14_Witness ==
    /\ ctl = "done"
    /\ Cardinality(OpeningSteps) = 2
    /\ IsDataLine(Last(output))
    /\ IsDataLine(output[2])

\* C15: every DATA line stands right after the line of an instruction at
\* the byte before it whose opcode is JUMP, STOP, REVERT, RETURN or
\* INVALID, so the first line is never a DATA line; a pass in which no byte
\* follows a rendered terminator ends with no DATA line, and 60 01 60 02 01
\* 00 gives four instruction lines at offsets 0, 2, 4 and 5.
C15_DataFollowsTerminator ==
    /\ \A k \in DataLines :
          /\ k > 1
          /\ ~IsDataLine(output[k - 1])
          /\ ~output[k - 1].truncated
          /\ LineOffset(output[k - 1]) + 1 = LineOffset(output[k])
          /\ code[LineOffset(output[k - 1]) + 1] \in Terminators
          /\ output[k - 1].text \in {"JUMP", "STOP", "REVERT", "RETURN", "INVALID"}
    /\ ctl = "done" =>
          ((\A i \in DOMAIN trace :
                (trace[i].rendered /\ trace[i].opcode \in Terminators) =>
                    trace[i].pc + 1 = Len(code))
             => DataLines = {})
    /\ (ctl = "done" /\ code = <<PUSH1, 1, PUSH1, 2, ADD, STOP>>) =>
          /\ Len(output) = 4
          /\ DataLines = {}
          /\ [k \in 1..4 |-> LineOffset(output[k])] = <<0, 2, 4, 5>>
          /\ [k \in 1..4 |-> output[k].text] = <<"PUSH1", "PUSH1", "ADD", "STOP">>

\* a DATA line that is the third line or later and stands after a JUMP line
C15_Witness ==
    /\ ctl = "done"
    /\ \E k \in DataLines : k > 2 /\ output[k - 1].text = "JUMP"

\* step i is a push decoded in code mode
C16Case(i) == trace[i].mode_in /\ IsPush(trace[i].opcode)

\* C16: the operand bytes of a push decoded in code mode are never decoded
\* at a scan step and no line has its offset at one of them, whatever their
\* values; the push leaves the mode at code and the next step, if there is
\* one, decodes at offset + 1 + width; a JUMPDEST decoded there is rendered
\* right after the push line, with no DATA line; 60 01 5b 00 gives the three
\* lines PUSH1, JUMPDEST, STOP at offsets 0, 2 and 3.
C16_CodePushOperandSkipped ==
    /\ \A i \in DOMAIN trace :
          C16Case(i) =>
              /\ trace[i].rendered
              /\ \A p \in OperandRange(trace[i]) :
                    /\ \A j \in DOMAIN trace : trace[j].pc # p
                    /\ \A k \in DOMAIN output : LineOffset(output[k]) # p
              /\ i = Len(trace) =>
                    /\ reading_code
                    /\ data_section = None
                    /\ pc = Min(trace[i].pc + 1 + PushWidth(trace[i].opcode), Len(code))
              /\ i < Len(trace) =>
                    /\ trace[i + 1].pc = trace[i].pc + 1 + PushWidth(trace[i].opcode)
                    /\ trace[i + 1].mode_in
                    /\ ~trace[i + 1].open_in
                    /\ trace[i + 1].opcode = JUMPDEST =>
                          \E k \in DOMAIN output :
                              /\ k > 1
                              /\ output[k].text = "JUMPDEST"
                              /\ ~output[k].has0x
                              /\ LineOffset(output[k]) = trace[i + 1].pc
                              /\ LineOffset(output[k - 1]) = trace[i].pc
                              /\ ~IsDataLine(output[k - 1])
    /\ (ctl = "done" /\ code = <<PUSH1, 1, JUMPDEST, STOP>>) =>
          /\ Len(output) = 3
          /\ [k \in 1..3 |-> output[k].text] = <<"PUSH1", "JUMPDEST", "STOP">>
          /\ [k \in 1..3 |-> LineOffset(output[k])] = <<0, 2, 3>>

\* a PUSH2 decoded in code mode whose operand bytes are a JUMPDEST and a
\* STOP value, with a JUMPDEST decoded right after it
C16_Witness ==
    /\ ctl = "done"
    /\ \E i \in DOMAIN trace :
          /\ C16Case(i)
          /\ trace[i].push_data = <<JUMPDEST, STOP>>
          /\ i < Len(trace)
          /\ trace[i + 1].opcode = JUMPDEST

\* the number of buffer bytes line l shows: the payload bytes of a DATA
\* line, the opcode byte and the operand bytes of an instruction line
LineBytes(l) ==
    IF IsDataLine(l) THEN Len(l.payload) \div 2 ELSE 1 + (Len(l.payload) \div 2)

\* the 0-based position at which the line after line k starts, or the end
NextStart(k) == IF k = Len(output) THEN Len(code) ELSE LineOffset(output[k + 1])

\* C17: when the pass has returned, the lines partition the buffer: the
\* first line starts at byte 0, every line shows exactly the bytes from its
\* offset up to the offset of the next line (or the end of the buffer), in
\* byte order: a DATA line as its payload, an instruction line as its opcode
\* and operand; 00 de ad be ef gives '0000: STOP' and '0001: DATA 0xdeadbeef'.
C17_LinesPartitionBuffer ==
    ctl = "done" =>
        /\ (output = <<>>) <=> (code = <<>>)
        /\ output # <<>> => LineOffset(output[1]) = 0
        /\ \A k \in DOMAIN output :
              LET l == output[k]
                  o == LineOffset(l)
              IN  /\ o + LineBytes(l) = NextStart(k)
                  /\ IF IsDataLine(l)
                     THEN l.payload = BytesHex(Slice(code, o, NextStart(k)))
                     ELSE /\ l.text = Mnemonic(code[o + 1])
                          /\ l.payload = BytesHex(Slice(code, o + 1, NextStart(k)))
                          /\ l.has0x = IsPush(code[o + 1])
        /\ code = <<STOP, 222, 173, 190, 239>> =>
              output = << [off |-> <<"0", "0", "0", "0">>, text |-> "STOP",
                           has0x |-> FALSE, payload |-> <<>>, truncated |-> FALSE],
                          [off |-> <<"0", "0", "0", "1">>, text |-> "DATA",
                           has0x |-> TRUE,
                           payload |-> <<"d", "e", "a", "d", "b", "e", "e", "f">>,
                           truncated |-> FALSE] >>

\* a pass has returned five lines, the second a DATA line that holds a
\* PUSH1 and its operand, the last a DATA line that holds a truncated PUSH2
C17_Witness ==
    /\ ctl = "done"
    /\ Len(output) = 5
    /\ IsDataLine(output[2])
    /\ output[2].payload = <<"6", "0", "5", "b">>
    /\ IsDataLine(output[5])
    /\ output[5].payload = <<"6", "1", "0", "1">>

\* C18: a DATA line that is not the last line is followed at once by the
\* line of a JUMPDEST located at the byte where the region ends, so two DATA
\* lines are never adjacent.
C18_DataThenJumpdest ==
    \A k \in DataLines :
        k < Len(output) =>
            /\ ~IsDataLine(output[k + 1])
            /\ output[k + 1].text = "JUMPDEST"
            /\ ~output[k + 1].has0x
            /\ ~output[k + 1].truncated
            /\ LineOffset(output[k + 1]) = DataEnd(k)
            /\ code[DataEnd(k) + 1] = JUMPDEST

\* a DATA line of two bytes followed by a JUMPDEST line and one more line
C18_Witness ==
    /\ ctl = "done"
    /\ Len(output) = 4
    /\ IsDataLine(output[2])
    /\ Len(output[2].payload) = 2
    /\ output[3].text = "JUMPDEST"

====
